---- MODULE Spec2Model ----
(***************************************************************************)
(* WeedBot actuation core (src/main_pi_control.py): the shared RobotState, *)
(* the main detection/actuation loop and the Flask control-surface         *)
(* handlers that share it.                                                 *)
(*                                                                         *)
(* Numbers are scaled to integers: time in ticks of 0.1 s, water in        *)
(* tenths of a millilitre, duty cycles and speeds in percent.  Python      *)
(* floats are modelled as exact numbers.  Each atomic step reads the clock *)
(* once.                                                                   *)
(***************************************************************************)
EXTENDS Integers, Sequences, FiniteSets, TLC

\* ---------------------------------------------------------------- bounds
\* Wall-clock reading (ticks) when the process starts; time.time() is far
\* larger than any cooldown, so the first detection is never on cooldown.
StartTime == 400
\* The clock advances at most this many ticks past StartTime.
MaxTicks == 6
\* Control-surface requests issued in one run.
MaxRequests == 1
\* Sprays logged one after the other when the log is studied on its own.
ConsumesInARow == 55
\* The clock advances at most this many ticks when one run of detections is
\* followed over more than a second.
ScenarioTicks == 16
\* Sprays the tank holds when the status reads are studied.
StatusSprays == 4

\* ------------------------------------------------------ program constants
DefaultMotorSpeed == 20
DefaultPumpDetectionDuration == 2
DefaultWaterPerSprayMl == 100
DefaultWaterTankCapacityMl == 2000
DefaultCurrentWaterLevelMl == 2000
DefaultDetectionCooldownS == 10
DefaultMotorPauseOnDetectionS == 10
SPEED_PUMP_DUTY_CYCLE == 50
DefaultStartSpeed == 20
DefaultTestDuration == 10
WaterLogMax == 50
TicksPerSecond == 10
\* Python's None (motor_paused_prev_speed) and an attribute not yet set.
None == -1
Unset == -2

Max(a, b) == IF a >= b THEN a ELSE b
Min(a, b) == IF a <= b THEN a ELSE b
\* The clamp without its upper bound.
Clamp_LowerOnly(lo, hi, x) == Max(lo, x)

\* max(lo, min(hi, x)), the clamp every numeric setter applies.
Clamp(lo, hi, x) == Max(lo, Min(hi, x))

\* The oldest n entries kept instead of the newest.
LastN_Oldest(s, n) == IF Len(s) <= n THEN s ELSE SubSeq(s, 1, n)

\* seq[-n:]
LastN(s, n) == IF Len(s) <= n THEN s ELSE SubSeq(s, Len(s) - n + 1, Len(s))

VARIABLES
    phase,                      \* "load", "gpio", "init", "run", "crashed",
                                \* "cleanup", "exited"
    now,                        \* time.time(), in ticks
    motor_speed,
    pump_detection_duration,
    pump_off_time,
    water_per_spray_ml,
    water_tank_capacity_ml,
    current_water_level_ml,
    water_log,
    detection_cooldown_s,
    last_detection_time,
    latest_annotated_frame,
    motor_paused_until,
    motor_paused_prev_speed,
    motor_pause_on_detection_s,
    lock,                       \* owner of STATE.lock: "none", "main", "handler"
    motor_pwm,
    pump_pwm,
    pump_dir,
    config_file,                \* contents of config.json
    mpc,                        \* main thread: position in the loop body
    detection_found,
    hpc,                        \* handler thread inside handle_pump_test
    h_duration,
    ret,                        \* status of the last completed request
    nreq,                       \* requests issued so far
    req,                        \* JSON body of the last request
    last_status                 \* answer to the last GET /get_status

state_vars == <<motor_speed, pump_detection_duration, pump_off_time,
                water_per_spray_ml, water_tank_capacity_ml,
                current_water_level_ml, water_log, detection_cooldown_s,
                last_detection_time, latest_annotated_frame,
                motor_paused_until, motor_paused_prev_speed,
                motor_pause_on_detection_s>>
device_vars == <<motor_pwm, pump_pwm, pump_dir>>
main_vars == <<mpc, detection_found>>
handler_vars == <<hpc, h_duration, ret, nreq, req, last_status>>
vars == <<phase, now, state_vars, lock, device_vars, config_file,
          main_vars, handler_vars>>

\* ------------------------------------------------------------ persistence
\* The record save_config writes.
ConfigRecord(ms, pdd, wps, cap, lvl, cd, mp) ==
    [kind |-> "json", motor_speed |-> ms, pump_detection_duration |-> pdd,
     water_per_spray_ml |-> wps, water_tank_capacity_ml |-> cap,
     current_water_level_ml |-> lvl, detection_cooldown_s |-> cd,
     motor_pause_on_detection_s |-> mp]

\* save_config reads STATE at the moment it is called.
SavedConfig ==
    ConfigRecord(motor_speed, pump_detection_duration, water_per_spray_ml,
                 water_tank_capacity_ml, current_water_level_ml,
                 detection_cooldown_s, motor_pause_on_detection_s)

\* config.json as earlier runs of the program left it: the defaults with a
\* short cooldown and a pause as long as the cooldown (as in DEFAULT_CONFIG,
\* where both are 1 s), a nearly empty tank, or no usable file.
BootFiles ==
    { ConfigRecord(DefaultMotorSpeed, DefaultPumpDetectionDuration,
                   DefaultWaterPerSprayMl, DefaultWaterTankCapacityMl,
                   DefaultCurrentWaterLevelMl, 5, 5),
      ConfigRecord(DefaultMotorSpeed, DefaultPumpDetectionDuration,
                   DefaultWaterPerSprayMl, DefaultWaterTankCapacityMl,
                   50, 5, 3),
      [kind |-> "missing"], [kind |-> "corrupt"] }

\* ------------------------------------------------------------------- Init
\* WeedBotState.__init__ and the module-level globals before load_config.
Init ==
    /\ phase = "load"
    /\ now = StartTime
    /\ motor_speed = DefaultMotorSpeed
    /\ pump_detection_duration = DefaultPumpDetectionDuration
    /\ pump_off_time = 0
    /\ water_per_spray_ml = DefaultWaterPerSprayMl
    /\ water_tank_capacity_ml = DefaultWaterTankCapacityMl
    /\ current_water_level_ml = DefaultCurrentWaterLevelMl
    /\ water_log = <<>>
    /\ detection_cooldown_s = DefaultDetectionCooldownS
    /\ last_detection_time = 0
    /\ latest_annotated_frame = "None"
    /\ motor_paused_until = 0
    /\ motor_paused_prev_speed = None
    /\ motor_pause_on_detection_s = Unset
    /\ lock = "none"
    /\ motor_pwm = 0
    /\ pump_pwm = 0
    /\ pump_dir = "off"
    /\ config_file \in BootFiles
    /\ mpc = "read"
    /\ detection_found = FALSE
    /\ hpc = "idle"
    /\ h_duration = 0
    /\ ret = [op |-> "none", status |-> "none"]
    /\ nreq = 0
    /\ req = [k |-> "none"]
    /\ last_status = [k |-> "none"]

\* -------------------------------------------------------------- startup
\* load_config: a readable file sets the seven fields; a missing or corrupt
\* file leads to save_config, which reads STATE.motor_pause_on_detection_s,
\* an attribute __init__ never sets: the AttributeError is caught once
\* (line 110), STATE.__init__() runs and the second save_config raises it
\* again, uncaught, so the process dies before the GPIO is set up.
load_config ==
    /\ phase = "load"
    /\ IF config_file.kind = "json"
       THEN /\ motor_speed' = config_file.motor_speed
            /\ pump_detection_duration' = config_file.pump_detection_duration
            /\ water_per_spray_ml' = config_file.water_per_spray_ml
            /\ water_tank_capacity_ml' = config_file.water_tank_capacity_ml
            /\ current_water_level_ml' = config_file.current_water_level_ml
            /\ detection_cooldown_s' = config_file.detection_cooldown_s
            /\ motor_pause_on_detection_s' = config_file.motor_pause_on_detection_s
            /\ phase' = "gpio"
       ELSE /\ motor_speed' = DefaultMotorSpeed
            /\ pump_detection_duration' = DefaultPumpDetectionDuration
            /\ water_per_spray_ml' = DefaultWaterPerSprayMl
            /\ water_tank_capacity_ml' = DefaultWaterTankCapacityMl
            /\ current_water_level_ml' = DefaultCurrentWaterLevelMl
            /\ detection_cooldown_s' = DefaultDetectionCooldownS
            /\ motor_pause_on_detection_s' = Unset
            /\ phase' = "crashed"
    /\ UNCHANGED <<now, pump_off_time, water_log, last_detection_time,
                   latest_annotated_frame, motor_paused_until,
                   motor_paused_prev_speed, lock, device_vars, config_file,
                   main_vars, handler_vars>>

\* The loaded speed kept at startup.
StartupMotorSpeed_Loaded(loaded) == loaded

\* Line 138: the loaded speed is overridden with 0.
StartupMotorSpeed(loaded) == 0

\* Lines 121-148: motor forced to 0 and saved, pump off.
init_gpio ==
    /\ phase = "gpio"
    /\ motor_pwm' = 0
    /\ motor_speed' = StartupMotorSpeed(motor_speed)
    /\ config_file' = ConfigRecord(motor_speed', pump_detection_duration,
                          water_per_spray_ml, water_tank_capacity_ml,
                          current_water_level_ml, detection_cooldown_s,
                          motor_pause_on_detection_s)
    /\ pump_dir' = "off"
    /\ pump_pwm' = 0
    /\ phase' = "init"
    /\ UNCHANGED <<now, pump_detection_duration, pump_off_time,
                   water_per_spray_ml, water_tank_capacity_ml,
                   current_water_level_ml, water_log, detection_cooldown_s,
                   last_detection_time, latest_annotated_frame,
                   motor_paused_until, motor_paused_prev_speed,
                   motor_pause_on_detection_s, lock, main_vars, handler_vars>>

\* Lines 830-850: model loaded, camera opened, server thread started.
start_server ==
    /\ phase = "init"
    /\ phase' = "run"
    /\ UNCHANGED <<now, state_vars, lock, device_vars, config_file,
                   main_vars, handler_vars>>

\* The wall clock advances.
Tick ==
    /\ phase = "run"
    /\ now < StartTime + MaxTicks
    /\ now' = now + 1
    /\ UNCHANGED <<phase, state_vars, lock, device_vars, config_file,
                   main_vars, handler_vars>>

\* ------------------------------------------------------- water accounting
\* The guard with the boundary excluded.
CanConsume_Strict(level, amount) == level > amount

\* The guard dropped: every spray is served.
CanConsume_Always(level, amount) == TRUE

\* Line 174: the guard of log_water_usage.
CanConsume(level, amount) == level >= amount

\* Lines 171, 176-181: the entry appended; strftime keeps whole seconds.
LogEntry(t, duration, amount, type) ==
    [time |-> t \div TicksPerSecond, duration |-> duration,
     amount |-> amount, type |-> type]

\* A log that forgets what it held when an entry is written.
AppendLog_Forget(log, entry) == <<entry>>

\* Lines 176-182: append, then keep the newest 50.
AppendLog(log, entry) == LastN(Append(log, entry), WaterLogMax)

\* Lines 175-183 of log_water_usage, taken when CanConsume holds: subtract,
\* log, save.  The caller's later writes are not part of what is saved.
LogWaterUsage(duration, type) ==
    /\ current_water_level_ml' = current_water_level_ml - water_per_spray_ml
    /\ water_log' = AppendLog(water_log,
                        LogEntry(now, duration, water_per_spray_ml, type))
    /\ config_file' = ConfigRecord(motor_speed, pump_detection_duration,
                          water_per_spray_ml, water_tank_capacity_ml,
                          current_water_level_ml', detection_cooldown_s,
                          motor_pause_on_detection_s)

\* ------------------------------------------------------------ motor pause
\* The deadline never written.
PauseUntil_Never(until, t, duration_s) == until

\* Line 802.
PauseUntil(until, t, duration_s) == Max(until, t + duration_s)

\* The saved speed taken afresh on every call.
SavedSpeed_Overwrite(prev, speed) == speed

\* Lines 784-790: the speed is captured only when no pause is in effect.
SavedSpeed(prev, speed) == IF prev = None THEN speed ELSE prev

\* The auto path without the motor pause.
PauseMotorFor_Skip(duration_s) ==
    UNCHANGED <<motor_paused_prev_speed, motor_speed, motor_pwm,
                motor_paused_until>>

\* A pause that stops the motor output but leaves the logical speed.
PauseMotorFor_KeepSpeed(duration_s) ==
    /\ motor_paused_prev_speed' =
          SavedSpeed(motor_paused_prev_speed, motor_speed)
    /\ motor_speed' = motor_speed
    /\ motor_pwm' = 0
    /\ motor_paused_until' = PauseUntil(motor_paused_until, now, duration_s)

\* pause_motor_for, lines 779-803.
PauseMotorFor(duration_s) ==
    /\ motor_paused_prev_speed' =
          SavedSpeed(motor_paused_prev_speed, motor_speed)
    /\ motor_speed' = 0
    /\ motor_pwm' = 0
    /\ motor_paused_until' = PauseUntil(motor_paused_until, now, duration_s)

\* ------------------------------------------------------------- main loop
\* The cooldown ignored.
CooldownAllowed_Always(t, last, cooldown) == TRUE

\* The cooldown with its boundary excluded.
CooldownAllowed_Strict(t, last, cooldown) == t > last + cooldown

\* Line 741, negated: the cooldown has elapsed.
CooldownAllowed(t, last, cooldown) == t >= last + cooldown

\* Line 745: the previous spray's stop time has passed and the tank is not dry.
ActivationCheck(t, off_time, level) == t > off_time /\ level > 0

\* A stop time that never counts as passed.
StopTimePassed_Never(t, off_time) == FALSE

\* Line 772, first and second conjunct.
StopTimePassed(t, off_time) == t > off_time
StopTimeSet(off_time) == off_time # 0

\* The resume already due at the deadline itself.
ResumeDue_AtOrAfter(prev, t, until) == prev # None /\ t >= until

\* Line 811.
ResumeDue(prev, t, until) == prev # None /\ t > until

\* Line 854: cap.read() delivers a frame, or fails and the camera is reopened.
main_read_frame ==
    /\ phase = "run" /\ mpc = "read"
    /\ \E success \in BOOLEAN : mpc' = IF success THEN "predict" ELSE "reopen"
    /\ UNCHANGED <<phase, now, state_vars, lock, device_vars, config_file,
                   detection_found, handler_vars>>

\* Lines 856-860: release, sleep 3 s, reopen, continue.
main_reopen_camera ==
    /\ phase = "run" /\ mpc = "reopen"
    /\ mpc' = "read"
    /\ UNCHANGED <<phase, now, state_vars, lock, device_vars, config_file,
                   detection_found, handler_vars>>

\* A cycle that publishes a frame before the detector raises.
main_predict_PublishFirst ==
    /\ phase = "run" /\ mpc = "predict"
    /\ \/ /\ \E found \in BOOLEAN : detection_found' = found /\ mpc' = "store"
          /\ latest_annotated_frame' = latest_annotated_frame
       \/ /\ detection_found' = detection_found /\ mpc' = "backoff"
          /\ latest_annotated_frame' = "frame"
    /\ UNCHANGED <<phase, now, motor_speed, pump_detection_duration,
                   pump_off_time, water_per_spray_ml, water_tank_capacity_ml,
                   current_water_level_ml, water_log, detection_cooldown_s,
                   last_detection_time, motor_paused_until,
                   motor_paused_prev_speed, motor_pause_on_detection_s, lock,
                   device_vars, config_file, handler_vars>>

\* Lines 863-874: the detector answers, or raises into the handler at 889.
main_predict ==
    /\ phase = "run" /\ mpc = "predict"
    /\ \/ \E found \in BOOLEAN : detection_found' = found /\ mpc' = "store"
       \/ detection_found' = detection_found /\ mpc' = "backoff"
    /\ UNCHANGED <<phase, now, state_vars, lock, device_vars, config_file,
                   handler_vars>>

\* Lines 889-892: log, sleep 0.5 s, continue.
main_backoff ==
    /\ phase = "run" /\ mpc = "backoff"
    /\ mpc' = "read"
    /\ UNCHANGED <<phase, now, state_vars, lock, device_vars, config_file,
                   detection_found, handler_vars>>

\* Lines 876-882: publish the frame under the lock.  latest_frame_time is
\* written here and read nowhere; it is not modelled.
main_store_frame ==
    /\ phase = "run" /\ mpc = "store" /\ lock = "none"
    /\ latest_annotated_frame' = "frame"
    /\ mpc' = IF detection_found THEN "activate" ELSE "stop_time"
    /\ UNCHANGED <<phase, now, motor_speed, pump_detection_duration,
                   pump_off_time, water_per_spray_ml, water_tank_capacity_ml,
                   current_water_level_ml, water_log, detection_cooldown_s,
                   last_detection_time, motor_paused_until,
                   motor_paused_prev_speed, motor_pause_on_detection_s, lock,
                   device_vars, config_file, detection_found, handler_vars>>

\* The spray decision of activate_pump_on_detect, lines 741-748.
AutoSprayFires ==
    /\ CooldownAllowed(now, last_detection_time, detection_cooldown_s)
    /\ ActivationCheck(now, pump_off_time, current_water_level_ml)
    /\ CanConsume(current_water_level_ml, water_per_spray_ml)

\* activate_pump_on_detect, lines 736-767, one critical section.
activate_pump_on_detect ==
    /\ phase = "run" /\ mpc = "activate" /\ lock = "none"
    /\ IF AutoSprayFires
       THEN /\ LogWaterUsage(pump_detection_duration, "Auto")
            /\ pump_dir' = "on"
            /\ pump_pwm' = SPEED_PUMP_DUTY_CYCLE
            /\ pump_off_time' = now + pump_detection_duration
            /\ last_detection_time' = now
            /\ PauseMotorFor(motor_pause_on_detection_s)
       ELSE UNCHANGED <<current_water_level_ml, water_log, config_file,
                        pump_dir, pump_pwm, pump_off_time, last_detection_time,
                        motor_paused_prev_speed, motor_speed, motor_pwm,
                        motor_paused_until>>
    /\ mpc' = "stop_time"
    /\ UNCHANGED <<phase, now, pump_detection_duration, water_per_spray_ml,
                   water_tank_capacity_ml, detection_cooldown_s,
                   latest_annotated_frame, motor_pause_on_detection_s, lock,
                   detection_found, handler_vars>>
\* check_and_stop_pump, lines 770-776.  It takes no lock, so each read and
\* each write is a step of its own that a handler holding the lock can
\* interleave with.
check_stop_time ==
    /\ phase = "run" /\ mpc = "stop_time"
    /\ mpc' = IF StopTimePassed(now, pump_off_time) THEN "stop_set" ELSE "resume"
    /\ UNCHANGED <<phase, now, state_vars, lock, device_vars, config_file,
                   detection_found, handler_vars>>

check_stop_set ==
    /\ phase = "run" /\ mpc = "stop_set"
    /\ mpc' = IF StopTimeSet(pump_off_time) THEN "stop_pwm" ELSE "resume"
    /\ UNCHANGED <<phase, now, state_vars, lock, device_vars, config_file,
                   detection_found, handler_vars>>

check_stop_pwm ==
    /\ phase = "run" /\ mpc = "stop_pwm"
    /\ pump_pwm' = 0
    /\ mpc' = "stop_dir"
    /\ UNCHANGED <<phase, now, state_vars, lock, motor_pwm, pump_dir,
                   config_file, detection_found, handler_vars>>

check_stop_dir ==
    /\ phase = "run" /\ mpc = "stop_dir"
    /\ pump_dir' = "off"
    /\ mpc' = "stop_clear"
    /\ UNCHANGED <<phase, now, state_vars, lock, motor_pwm, pump_pwm,
                   config_file, detection_found, handler_vars>>

check_stop_clear ==
    /\ phase = "run" /\ mpc = "stop_clear"
    /\ pump_off_time' = 0
    /\ mpc' = "resume"
    /\ UNCHANGED <<phase, now, motor_speed, pump_detection_duration,
                   water_per_spray_ml, water_tank_capacity_ml,
                   current_water_level_ml, water_log, detection_cooldown_s,
                   last_detection_time, latest_annotated_frame,
                   motor_paused_until, motor_paused_prev_speed,
                   motor_pause_on_detection_s, lock, device_vars, config_file,
                   detection_found, handler_vars>>

\* A resume that restores the logical speed and not the motor output.
check_and_resume_motor_NoDuty ==
    /\ phase = "run" /\ mpc = "resume" /\ lock = "none"
    /\ IF ResumeDue(motor_paused_prev_speed, now, motor_paused_until)
       THEN /\ IF motor_speed = 0
               THEN motor_speed' = motor_paused_prev_speed
               ELSE UNCHANGED motor_speed
            /\ motor_paused_prev_speed' = None
            /\ motor_paused_until' = 0
       ELSE UNCHANGED <<motor_speed, motor_paused_prev_speed,
                        motor_paused_until>>
    /\ mpc' = "read"
    /\ UNCHANGED <<phase, now, pump_detection_duration, pump_off_time,
                   water_per_spray_ml, water_tank_capacity_ml,
                   current_water_level_ml, water_log, detection_cooldown_s,
                   last_detection_time, latest_annotated_frame,
                   motor_pause_on_detection_s, lock, motor_pwm, pump_pwm,
                   pump_dir, config_file, detection_found, handler_vars>>

\* check_and_resume_motor, lines 806-826, then sleep(0.01) and the next cycle.
check_and_resume_motor ==
    /\ phase = "run" /\ mpc = "resume" /\ lock = "none"
    /\ IF ResumeDue(motor_paused_prev_speed, now, motor_paused_until)
       THEN /\ IF motor_speed = 0
               THEN /\ motor_speed' = motor_paused_prev_speed
                    /\ motor_pwm' = motor_paused_prev_speed
               ELSE UNCHANGED <<motor_speed, motor_pwm>>
            /\ motor_paused_prev_speed' = None
            /\ motor_paused_until' = 0
       ELSE UNCHANGED <<motor_speed, motor_pwm, motor_paused_prev_speed,
                        motor_paused_until>>
    /\ mpc' = "read"
    /\ UNCHANGED <<phase, now, pump_detection_duration, pump_off_time,
                   water_per_spray_ml, water_tank_capacity_ml,
                   current_water_level_ml, water_log, detection_cooldown_s,
                   last_detection_time, latest_annotated_frame,
                   motor_pause_on_detection_s, lock, pump_pwm, pump_dir,
                   config_file, detection_found, handler_vars>>

\* ------------------------------------------------------- control surface
\* A JSON value of a request: a number, a text that float() rejects, or no
\* value (key absent).
Num(n) == [k |-> "num", v |-> n]
NotANumber == [k |-> "str"]
Absent == [k |-> "none"]
IsNum(x) == x.k = "num"

\* What a request was and how it was answered.
Response(op, status) == [op |-> op, status |-> status]

\* A request is accepted while the server runs and no handler holds the lock
\* (a second handler would wait for it).
CanServe == phase = "run" /\ hpc = "idle" /\ lock = "none" /\ nreq < MaxRequests

TestDurations == {Num(1), Num(3), NotANumber, Absent}

\* Line 600: data.get('duration', 1.0).
TestDuration(raw) == IF IsNum(raw) THEN raw.v ELSE DefaultTestDuration

\* handle_pump_test, lines 596-615: clamp the duration, take the lock and
\* consume; a refused consume answers "Tank is empty".
test_pump_begin ==
    /\ CanServe
    /\ \E raw \in TestDurations :
         /\ req' = raw
         /\ IF raw = NotANumber
            THEN /\ ret' = Response("test_pump", "invalid")
                 /\ UNCHANGED <<current_water_level_ml, water_log, config_file,
                                lock, hpc, h_duration>>
            ELSE IF CanConsume(current_water_level_ml, water_per_spray_ml)
            THEN /\ LogWaterUsage(Clamp(1, 100, TestDuration(raw)), "Test")
                 /\ h_duration' = Clamp(1, 100, TestDuration(raw))
                 /\ lock' = "handler"
                 /\ hpc' = "pump_dir"
                 /\ ret' = Response("test_pump", "pending")
            ELSE /\ ret' = Response("test_pump", "tankEmpty")
                 /\ UNCHANGED <<current_water_level_ml, water_log, config_file,
                                lock, hpc, h_duration>>
    /\ nreq' = nreq + 1
    /\ UNCHANGED <<phase, now, motor_speed, pump_detection_duration,
                   pump_off_time, water_per_spray_ml, water_tank_capacity_ml,
                   detection_cooldown_s, last_detection_time,
                   latest_annotated_frame, motor_paused_until,
                   motor_paused_prev_speed, motor_pause_on_detection_s,
                   device_vars, main_vars, last_status>>

\* Line 607.
test_pump_dir ==
    /\ phase = "run" /\ hpc = "pump_dir"
    /\ pump_dir' = "on"
    /\ hpc' = "pump_pwm"
    /\ UNCHANGED <<phase, now, state_vars, lock, motor_pwm, pump_pwm,
                   config_file, main_vars, h_duration, ret, nreq, req, last_status>>

\* Line 608.
test_pump_pwm ==
    /\ phase = "run" /\ hpc = "pump_pwm"
    /\ pump_pwm' = SPEED_PUMP_DUTY_CYCLE
    /\ hpc' = "pump_off_time"
    /\ UNCHANGED <<phase, now, state_vars, lock, motor_pwm, pump_dir,
                   config_file, main_vars, h_duration, ret, nreq, req, last_status>>

\* A stop time still ahead kept when the test spray's is earlier.
OverwriteStopTime_KeepLater(off_time, t, duration) ==
    Max(off_time, t + duration)

\* Line 609: the stop time in force is replaced, whatever it was.
OverwriteStopTime(off_time, t, duration) == t + duration

\* Line 609, then the lock is released and the request answered.
test_pump_off_time ==
    /\ phase = "run" /\ hpc = "pump_off_time"
    /\ pump_off_time' = OverwriteStopTime(pump_off_time, now, h_duration)
    /\ lock' = "none"
    /\ hpc' = "idle"
    /\ ret' = Response("test_pump", "success")
    /\ h_duration' = 0
    /\ UNCHANGED <<phase, now, motor_speed, pump_detection_duration,
                   water_per_spray_ml, water_tank_capacity_ml,
                   current_water_level_ml, water_log, detection_cooldown_s,
                   last_detection_time, latest_annotated_frame,
                   motor_paused_until, motor_paused_prev_speed,
                   motor_pause_on_detection_s, device_vars, config_file,
                   main_vars, nreq, req, last_status>>
SpeedInputs ==
    {Num(0), Num(20), Num(150), Num(-10), NotANumber, Absent}

\* set_motor_speed leaving a pause in effect.
SetMotorSpeed_KeepPause(op, new_speed) ==
    /\ motor_speed' = Clamp(0, 100, new_speed)
    /\ motor_pwm' = Clamp(0, 100, new_speed)
    /\ UNCHANGED <<motor_paused_prev_speed, motor_paused_until>>
    /\ config_file' = ConfigRecord(motor_speed', pump_detection_duration,
                          water_per_spray_ml, water_tank_capacity_ml,
                          current_water_level_ml, detection_cooldown_s,
                          motor_pause_on_detection_s)
    /\ ret' = Response(op, "success")

\* set_motor_speed, lines 152-166.
SetMotorSpeed(op, new_speed) ==
    /\ motor_speed' = Clamp(0, 100, new_speed)
    /\ motor_pwm' = Clamp(0, 100, new_speed)
    /\ motor_paused_prev_speed' = None
    /\ motor_paused_until' = 0
    /\ config_file' = ConfigRecord(motor_speed', pump_detection_duration,
                          water_per_spray_ml, water_tank_capacity_ml,
                          current_water_level_ml, detection_cooldown_s,
                          motor_pause_on_detection_s)
    /\ ret' = Response(op, "success")

\* handle_speed_change, lines 556-569.
handle_speed_change ==
    /\ CanServe
    /\ \E raw \in SpeedInputs :
         /\ req' = raw
         /\ IF IsNum(raw)
            THEN SetMotorSpeed("set_speed", raw.v)
            ELSE /\ ret' = Response("set_speed", "invalid")
                 /\ UNCHANGED <<motor_speed, motor_pwm,
                                motor_paused_prev_speed, motor_paused_until,
                                config_file>>
    /\ nreq' = nreq + 1
    /\ UNCHANGED <<phase, now, pump_detection_duration, pump_off_time,
                   water_per_spray_ml, water_tank_capacity_ml,
                   current_water_level_ml, water_log, detection_cooldown_s,
                   last_detection_time, latest_annotated_frame,
                   motor_pause_on_detection_s, lock, pump_pwm, pump_dir,
                   main_vars, hpc, h_duration, last_status>>

\* Stop and start buttons that leave a pause in effect.
handle_motor_stop_start_KeepPause ==
    /\ CanServe
    /\ \/ SetMotorSpeed_KeepPause("stop_motor", 0)
       \/ SetMotorSpeed_KeepPause("start_motor", DefaultStartSpeed)
    /\ req' = Absent
    /\ nreq' = nreq + 1
    /\ UNCHANGED <<phase, now, pump_detection_duration, pump_off_time,
                   water_per_spray_ml, water_tank_capacity_ml,
                   current_water_level_ml, water_log, detection_cooldown_s,
                   last_detection_time, latest_annotated_frame,
                   motor_pause_on_detection_s, lock, pump_pwm, pump_dir,
                   main_vars, hpc, h_duration, last_status>>

\* handle_motor_stop (lines 571-581) and handle_motor_start (583-594).
handle_motor_stop_start ==
    /\ CanServe
    /\ \/ SetMotorSpeed("stop_motor", 0)
       \/ SetMotorSpeed("start_motor", DefaultStartSpeed)
    /\ req' = Absent
    /\ nreq' = nreq + 1
    /\ UNCHANGED <<phase, now, pump_detection_duration, pump_off_time,
                   water_per_spray_ml, water_tank_capacity_ml,
                   current_water_level_ml, water_log, detection_cooldown_s,
                   last_detection_time, latest_annotated_frame,
                   motor_pause_on_detection_s, lock, pump_pwm, pump_dir,
                   main_vars, hpc, h_duration, last_status>>

DetectionDurationInputs == {Num(0), Num(3), Num(60), NotANumber, Absent}

\* handle_detection_duration_change, lines 627-647; an absent value
\* defaults to the current one.
handle_detection_duration_change ==
    /\ CanServe
    /\ \E raw \in DetectionDurationInputs :
         /\ req' = raw
         /\ IF raw = NotANumber
            THEN /\ ret' = Response("set_detection_duration", "invalid")
                 /\ UNCHANGED <<pump_detection_duration, config_file>>
            ELSE /\ pump_detection_duration' =
                       Clamp(1, 50, IF IsNum(raw) THEN raw.v
                                    ELSE pump_detection_duration)
                 /\ config_file' = ConfigRecord(motor_speed,
                                       pump_detection_duration',
                                       water_per_spray_ml, water_tank_capacity_ml,
                                       current_water_level_ml,
                                       detection_cooldown_s,
                                       motor_pause_on_detection_s)
                 /\ ret' = Response("set_detection_duration", "success")
    /\ nreq' = nreq + 1
    /\ UNCHANGED <<phase, now, motor_speed, pump_off_time, water_per_spray_ml,
                   water_tank_capacity_ml, current_water_level_ml, water_log,
                   detection_cooldown_s, last_detection_time,
                   latest_annotated_frame, motor_paused_until,
                   motor_paused_prev_speed, motor_pause_on_detection_s, lock,
                   device_vars, main_vars, hpc, h_duration, last_status>>

CooldownInputs == {Num(6), Num(2), Num(400), NotANumber, Absent}

\* handle_cooldown_change, lines 649-670.
handle_cooldown_change ==
    /\ CanServe
    /\ \E raw \in CooldownInputs :
         /\ req' = raw
         /\ IF raw = NotANumber
            THEN /\ ret' = Response("set_cooldown", "invalid")
                 /\ UNCHANGED <<detection_cooldown_s, config_file>>
            ELSE /\ detection_cooldown_s' =
                       Clamp(5, 300, IF IsNum(raw) THEN raw.v
                                     ELSE detection_cooldown_s)
                 /\ config_file' = ConfigRecord(motor_speed,
                                       pump_detection_duration,
                                       water_per_spray_ml, water_tank_capacity_ml,
                                       current_water_level_ml,
                                       detection_cooldown_s',
                                       motor_pause_on_detection_s)
                 /\ ret' = Response("set_cooldown", "success")
    /\ nreq' = nreq + 1
    /\ UNCHANGED <<phase, now, motor_speed, pump_detection_duration,
                   pump_off_time, water_per_spray_ml, water_tank_capacity_ml,
                   current_water_level_ml, water_log, last_detection_time,
                   latest_annotated_frame, motor_paused_until,
                   motor_paused_prev_speed, motor_pause_on_detection_s, lock,
                   device_vars, main_vars, hpc, h_duration, last_status>>

SprayMlInputs == {Absent, Num(1500), Num(0), NotANumber}
CapacityMlInputs == {Absent, Num(500), NotANumber}

\* Line 698.
NewSprayMl(x) == Max(1, x)
\* Line 700.
NewCapacityMl(x) == Max(1000, x)
\* The level left alone when the capacity shrinks.
LevelUnderCapacity_NoClamp(level, capacity) == level

\* Lines 701-702.
LevelUnderCapacity(level, capacity) ==
    IF capacity < level THEN capacity ELSE level

\* set_water_config, lines 688-713.  The spray volume is assigned before the
\* capacity is parsed, and nothing is saved when float() raises.
set_water_config ==
    /\ CanServe
    /\ \E spray \in SprayMlInputs, capacity \in CapacityMlInputs :
         /\ req' = [k |-> "pair", spray |-> spray, capacity |-> capacity]
         /\ water_per_spray_ml' =
               IF IsNum(spray) THEN NewSprayMl(spray.v) ELSE water_per_spray_ml
         /\ IF spray # NotANumber /\ IsNum(capacity)
            THEN /\ water_tank_capacity_ml' = NewCapacityMl(capacity.v)
                 /\ current_water_level_ml' =
                       LevelUnderCapacity(current_water_level_ml,
                                          NewCapacityMl(capacity.v))
            ELSE UNCHANGED <<water_tank_capacity_ml, current_water_level_ml>>
         /\ IF spray = NotANumber \/ capacity = NotANumber
            THEN /\ ret' = Response("set_water_config", "invalid")
                 /\ config_file' = config_file
            ELSE /\ ret' = Response("set_water_config", "success")
                 /\ config_file' = ConfigRecord(motor_speed,
                                       pump_detection_duration,
                                       water_per_spray_ml',
                                       water_tank_capacity_ml',
                                       current_water_level_ml',
                                       detection_cooldown_s,
                                       motor_pause_on_detection_s)
    /\ nreq' = nreq + 1
    /\ UNCHANGED <<phase, now, motor_speed, pump_detection_duration,
                   pump_off_time, water_log, detection_cooldown_s,
                   last_detection_time, latest_annotated_frame,
                   motor_paused_until, motor_paused_prev_speed,
                   motor_pause_on_detection_s, lock, device_vars, main_vars,
                   hpc, h_duration, last_status>>

\* A refill that keeps the log.
reset_water_level_KeepLog ==
    /\ CanServe
    /\ current_water_level_ml' = water_tank_capacity_ml
    /\ config_file' = ConfigRecord(motor_speed, pump_detection_duration,
                          water_per_spray_ml, water_tank_capacity_ml,
                          current_water_level_ml', detection_cooldown_s,
                          motor_pause_on_detection_s)
    /\ ret' = Response("reset_water_level", "success")
    /\ req' = Absent
    /\ nreq' = nreq + 1
    /\ UNCHANGED <<phase, now, motor_speed, pump_detection_duration,
                   pump_off_time, water_per_spray_ml, water_tank_capacity_ml,
                   water_log, detection_cooldown_s, last_detection_time,
                   latest_annotated_frame, motor_paused_until,
                   motor_paused_prev_speed, motor_pause_on_detection_s, lock,
                   device_vars, main_vars, hpc, h_duration, last_status>>

\* reset_water_level, lines 715-727.
reset_water_level ==
    /\ CanServe
    /\ current_water_level_ml' = water_tank_capacity_ml
    /\ water_log' = <<>>
    /\ config_file' = ConfigRecord(motor_speed, pump_detection_duration,
                          water_per_spray_ml, water_tank_capacity_ml,
                          current_water_level_ml', detection_cooldown_s,
                          motor_pause_on_detection_s)
    /\ ret' = Response("reset_water_level", "success")
    /\ req' = Absent
    /\ nreq' = nreq + 1
    /\ UNCHANGED <<phase, now, motor_speed, pump_detection_duration,
                   pump_off_time, water_per_spray_ml, water_tank_capacity_ml,
                   detection_cooldown_s, last_detection_time,
                   latest_annotated_frame, motor_paused_until,
                   motor_paused_prev_speed, motor_pause_on_detection_s, lock,
                   device_vars, main_vars, hpc, h_duration, last_status>>

\* ---------------------------------------------------------- specification
MainStep ==
    \/ main_read_frame
    \/ main_reopen_camera
    \/ main_predict
    \/ main_backoff
    \/ main_store_frame
    \/ activate_pump_on_detect
    \/ check_stop_time
    \/ check_stop_set
    \/ check_stop_pwm
    \/ check_stop_dir
    \/ check_stop_clear
    \/ check_and_resume_motor

HandlerStep ==
    \/ test_pump_begin
    \/ test_pump_dir
    \/ test_pump_pwm
    \/ test_pump_off_time
    \/ handle_speed_change
    \/ handle_motor_stop_start
    \/ handle_detection_duration_change
    \/ handle_cooldown_change
    \/ set_water_config
    \/ reset_water_level

Next ==
    \/ load_config
    \/ init_gpio
    \/ start_server
    \/ Tick
    \/ MainStep
    \/ HandlerStep

Spec == Init /\ [][Next]_vars
\* cap.read() delivered a frame.
FrameDelivered == main_read_frame /\ mpc' = "predict"

\* The scheduler runs every thread and the clock advances: the main loop, a
\* handler that holds the lock, and the startup sequence each keep going,
\* and the camera is not down for ever.
FairSpec ==
    /\ Spec
    /\ WF_vars(MainStep)
    /\ SF_vars(FrameDelivered)
    /\ WF_vars(Tick)
    /\ WF_vars(test_pump_dir \/ test_pump_pwm \/ test_pump_off_time)
    /\ WF_vars(load_config \/ init_gpio \/ start_server)

\* ----------------------------------------------------------------- exit
\* Positions of the main thread inside the loop body.
LoopPositions ==
    {"read", "reopen", "predict", "backoff", "store", "activate",
     "stop_time", "stop_set", "stop_pwm", "stop_dir", "stop_clear", "resume"}

\* Lines 832-841 and 895-900: SystemExit for a missing model or a camera that
\* does not open, or an unexpected error, before the server thread exists.
startup_exit ==
    /\ phase = "init"
    /\ phase' = "cleanup"
    /\ mpc' = "cleanup_motor"
    /\ UNCHANGED <<now, state_vars, lock, device_vars, config_file,
                   detection_found, handler_vars>>

\* Lines 853 and 897: the loop ends because the capture is no longer open, or
\* Ctrl+C reaches the main thread between two of its steps (the lock is
\* released on the way out).  The daemon server thread keeps serving.
loop_exit ==
    /\ phase = "run"
    /\ mpc \in LoopPositions
    /\ mpc' = "cleanup_motor"
    /\ UNCHANGED <<phase, now, state_vars, lock, device_vars, config_file,
                   detection_found, handler_vars>>

\* Line 910, taken without the lock.
cleanup_motor ==
    /\ mpc = "cleanup_motor"
    /\ motor_pwm' = 0
    /\ mpc' = "cleanup_pump"
    /\ UNCHANGED <<phase, now, state_vars, lock, pump_pwm, pump_dir,
                   config_file, detection_found, handler_vars>>

\* Line 911, the last statement of the script: the process exits and the
\* daemon thread dies with it.
cleanup_pump ==
    /\ mpc = "cleanup_pump"
    /\ pump_pwm' = 0
    /\ mpc' = "done"
    /\ phase' = "exited"
    /\ UNCHANGED <<now, state_vars, lock, motor_pwm, pump_dir, config_file,
                   detection_found, handler_vars>>

ShutdownStep ==
    \/ startup_exit
    \/ loop_exit
    \/ cleanup_motor
    \/ cleanup_pump

NextShutdown ==
    \/ Next
    \/ ShutdownStep

\* The program with its exit paths.
SpecShutdown == Init /\ [][NextShutdown]_vars

\* ------------------------------------------------- the ledger on its own
\* log_water_usage applied, through both spray paths, to every combination
\* of tank level, spray volume and log fill the running program can hold.
LedgerLevels == {0, 1, 99, 100, 101, 1500, 2000}
LedgerAmounts == {1, 100, 1500}
LedgerLogLengths == {0, WaterLogMax - 1, WaterLogMax}

\* A log of n earlier sprays, oldest first, each with its own timestamp.
EarlierLog(n) ==
    [i \in 1..n |-> [time |-> i, duration |-> DefaultPumpDetectionDuration,
                     amount |-> 1, type |-> "Auto"]]

InitLedger ==
    /\ phase = "run"
    /\ now = StartTime
    /\ motor_speed = 0
    /\ pump_detection_duration = DefaultPumpDetectionDuration
    /\ pump_off_time = 0
    /\ water_per_spray_ml \in LedgerAmounts
    /\ water_tank_capacity_ml = DefaultWaterTankCapacityMl
    /\ current_water_level_ml \in LedgerLevels
    /\ water_log \in {EarlierLog(n) : n \in LedgerLogLengths}
    /\ detection_cooldown_s = DefaultDetectionCooldownS
    /\ last_detection_time = 0
    /\ latest_annotated_frame = "frame"
    /\ motor_paused_until = 0
    /\ motor_paused_prev_speed = None
    /\ motor_pause_on_detection_s = DefaultMotorPauseOnDetectionS
    /\ lock = "none"
    /\ motor_pwm = 0
    /\ pump_pwm = 0
    /\ pump_dir = "off"
    /\ config_file = SavedConfig
    /\ mpc = "activate"
    /\ detection_found = TRUE
    /\ hpc = "idle"
    /\ h_duration = 0
    /\ ret = [op |-> "none", status |-> "none"]
    /\ nreq = 0
    /\ req = [k |-> "none"]
    /\ last_status = [k |-> "none"]

NextLedger ==
    \/ activate_pump_on_detect
    \/ test_pump_begin
    \/ test_pump_dir
    \/ test_pump_pwm
    \/ test_pump_off_time

SpecLedger == InitLedger /\ [][NextLedger]_vars

\* ------------------------------------------------ the log on its own
\* log_water_usage called ConsumesInARow times in a row, one second apart,
\* on a tank that holds exactly that many sprays and an empty log.
LogAmounts == {1, 10, 20}

InitLog ==
    /\ phase = "run"
    /\ now = StartTime
    /\ motor_speed = 0
    /\ pump_detection_duration = DefaultPumpDetectionDuration
    /\ pump_off_time = 0
    /\ water_per_spray_ml \in LogAmounts
    /\ water_tank_capacity_ml = DefaultWaterTankCapacityMl
    /\ current_water_level_ml = ConsumesInARow * water_per_spray_ml
    /\ water_log = <<>>
    /\ detection_cooldown_s = DefaultDetectionCooldownS
    /\ last_detection_time = 0
    /\ latest_annotated_frame = "frame"
    /\ motor_paused_until = 0
    /\ motor_paused_prev_speed = None
    /\ motor_pause_on_detection_s = DefaultMotorPauseOnDetectionS
    /\ lock = "none"
    /\ motor_pwm = 0
    /\ pump_pwm = 0
    /\ pump_dir = "off"
    /\ config_file = SavedConfig
    /\ mpc = "read"
    /\ detection_found = FALSE
    /\ hpc = "idle"
    /\ h_duration = 0
    /\ ret = [op |-> "none", status |-> "none"]
    /\ nreq = 0
    /\ req = [k |-> "none"]
    /\ last_status = [k |-> "none"]

\* One call of log_water_usage (lines 168-188) that finds enough water, a
\* second after the call before it.
log_water_usage ==
    /\ phase = "run"
    /\ CanConsume(current_water_level_ml, water_per_spray_ml)
    /\ LogWaterUsage(pump_detection_duration, "Auto")
    /\ now' = now + TicksPerSecond
    /\ UNCHANGED <<phase, motor_speed, pump_detection_duration, pump_off_time,
                   water_per_spray_ml, water_tank_capacity_ml,
                   detection_cooldown_s, last_detection_time,
                   latest_annotated_frame, motor_paused_until,
                   motor_paused_prev_speed, motor_pause_on_detection_s, lock,
                   device_vars, main_vars, handler_vars>>

NextLog == log_water_usage

SpecLog == InitLog /\ [][NextLog]_vars

\* ------------------------------------------- the main loop on its own
\* The loop started on the default configuration with no request made: the
\* motor stands still or was started at 20 %, and no frame is published yet.
InitScenario ==
    /\ phase = "run"
    /\ now = StartTime
    /\ motor_speed \in {0, DefaultStartSpeed}
    /\ pump_detection_duration = DefaultPumpDetectionDuration
    /\ pump_off_time = 0
    /\ water_per_spray_ml = DefaultWaterPerSprayMl
    /\ water_tank_capacity_ml = DefaultWaterTankCapacityMl
    /\ current_water_level_ml = DefaultCurrentWaterLevelMl
    /\ water_log = <<>>
    /\ detection_cooldown_s = DefaultDetectionCooldownS
    /\ last_detection_time = 0
    /\ latest_annotated_frame = "None"
    /\ motor_paused_until = 0
    /\ motor_paused_prev_speed = None
    /\ motor_pause_on_detection_s = DefaultMotorPauseOnDetectionS
    /\ lock = "none"
    /\ motor_pwm = motor_speed
    /\ pump_pwm = 0
    /\ pump_dir = "off"
    /\ config_file = SavedConfig
    /\ mpc = "read"
    /\ detection_found = FALSE
    /\ hpc = "idle"
    /\ h_duration = 0
    /\ ret = [op |-> "none", status |-> "none"]
    /\ nreq = 0
    /\ req = [k |-> "none"]
    /\ last_status = [k |-> "none"]

\* The wall clock advances, over the longer span.
Elapse ==
    /\ phase = "run"
    /\ now < StartTime + ScenarioTicks
    /\ now' = now + 1
    /\ UNCHANGED <<phase, state_vars, lock, device_vars, config_file,
                   main_vars, handler_vars>>

NextScenario ==
    \/ Elapse
    \/ MainStep

SpecScenario == InitScenario /\ [][NextScenario]_vars

\* ------------------------------------------- status reads between writes
\* The program restarted on a file with a few sprays left: the log starts
\* empty (it is not saved), the level comes from the file.
InitStatus ==
    /\ phase = "run"
    /\ now = StartTime
    /\ motor_speed = DefaultStartSpeed
    /\ pump_detection_duration = DefaultPumpDetectionDuration
    /\ pump_off_time = 0
    /\ water_per_spray_ml = DefaultWaterPerSprayMl
    /\ water_tank_capacity_ml = DefaultWaterTankCapacityMl
    /\ current_water_level_ml = StatusSprays * DefaultWaterPerSprayMl
    /\ water_log = <<>>
    /\ detection_cooldown_s = DefaultDetectionCooldownS
    /\ last_detection_time = 0
    /\ latest_annotated_frame = "None"
    /\ motor_paused_until = 0
    /\ motor_paused_prev_speed = None
    /\ motor_pause_on_detection_s = DefaultMotorPauseOnDetectionS
    /\ lock = "none"
    /\ motor_pwm = motor_speed
    /\ pump_pwm = 0
    /\ pump_dir = "off"
    /\ config_file = SavedConfig
    /\ mpc = "activate"
    /\ detection_found = TRUE
    /\ hpc = "idle"
    /\ h_duration = 0
    /\ ret = [op |-> "none", status |-> "none"]
    /\ nreq = 0
    /\ req = [k |-> "none"]
    /\ last_status = [k |-> "none"]

\* Who holds the lock while a spray is between its two writes.
SprayOwners == {"main", "handler"}

\* Lines 738-748 (auto) and 604-606 (test) down to line 175: the lock is
\* taken, the guards pass and the level is lowered.  The log entry is not
\* written yet.
consume_level(owner) ==
    /\ phase = "run" /\ lock = "none"
    /\ IF owner = "main" THEN AutoSprayFires
       ELSE CanConsume(current_water_level_ml, water_per_spray_ml)
    /\ current_water_level_ml' = current_water_level_ml - water_per_spray_ml
    /\ lock' = owner
    /\ UNCHANGED <<phase, now, motor_speed, pump_detection_duration,
                   pump_off_time, water_per_spray_ml, water_tank_capacity_ml,
                   water_log, detection_cooldown_s, last_detection_time,
                   latest_annotated_frame, motor_paused_until,
                   motor_paused_prev_speed, motor_pause_on_detection_s,
                   device_vars, config_file, main_vars, handler_vars>>

\* Lines 176-183 and the rest of the caller's critical section (754-766 for
\* the auto spray, 607-609 for a test spray of the default 1 s): the entry
\* is appended, the configuration saved, the pump started, the lock
\* released.
consume_log(owner) ==
    /\ phase = "run" /\ lock = owner
    /\ water_log' = AppendLog(water_log,
                        LogEntry(now,
                                 IF owner = "main" THEN pump_detection_duration
                                 ELSE DefaultTestDuration,
                                 water_per_spray_ml,
                                 IF owner = "main" THEN "Auto" ELSE "Test"))
    /\ config_file' = SavedConfig
    /\ pump_dir' = "on"
    /\ pump_pwm' = SPEED_PUMP_DUTY_CYCLE
    /\ IF owner = "main"
       THEN /\ pump_off_time' = now + pump_detection_duration
            /\ last_detection_time' = now
            /\ PauseMotorFor(motor_pause_on_detection_s)
       ELSE /\ pump_off_time' =
                  OverwriteStopTime(pump_off_time, now, DefaultTestDuration)
            /\ UNCHANGED <<last_detection_time, motor_speed, motor_pwm,
                           motor_paused_until, motor_paused_prev_speed>>
    /\ lock' = "none"
    /\ UNCHANGED <<phase, now, pump_detection_duration, water_per_spray_ml,
                   water_tank_capacity_ml, current_water_level_ml,
                   detection_cooldown_s, latest_annotated_frame,
                   motor_pause_on_detection_s, main_vars, handler_vars>>

\* A status read let in whoever holds the lock.
StatusAdmitted_Unlocked(owner) == TRUE

\* Line 677: get_status runs in a request thread of its own and waits for
\* the lock.
StatusAdmitted(owner) == owner = "none"

\* get_status, lines 674-686: the answer is built under the lock.
get_status ==
    /\ phase = "run"
    /\ StatusAdmitted(lock)
    /\ last_status' = [k |-> "status",
                       motor_speed |-> motor_speed,
                       pump_detection_duration |-> pump_detection_duration,
                       water_per_spray_ml |-> water_per_spray_ml,
                       water_tank_capacity_ml |-> water_tank_capacity_ml,
                       current_water_level_ml |-> current_water_level_ml,
                       detection_cooldown_s |-> detection_cooldown_s,
                       water_log |-> water_log]
    /\ UNCHANGED <<phase, now, state_vars, lock, device_vars, config_file,
                   main_vars, hpc, h_duration, ret, nreq, req>>

NextStatus ==
    \/ Elapse
    \/ \E owner \in SprayOwners : consume_level(owner)
    \/ \E owner \in SprayOwners : consume_log(owner)
    \/ get_status

SpecStatus == InitStatus /\ [][NextStatus]_vars

\* ------------------------------------------------ sprays after a refill
\* Spray volumes of 25 ml and 30 ml: the smallest tank holds four sprays of
\* the first, and three of the second with water to spare.
RefillSprayVolumes == {250, 300}

\* The tank of the smallest capacity (100 ml, line 700) has just been
\* refilled: the level is the capacity and the log is empty.
InitRefill ==
    /\ phase = "run"
    /\ now = StartTime
    /\ motor_speed = DefaultStartSpeed
    /\ pump_detection_duration = DefaultPumpDetectionDuration
    /\ pump_off_time = 0
    /\ water_per_spray_ml \in RefillSprayVolumes
    /\ water_tank_capacity_ml = 1000
    /\ current_water_level_ml = water_tank_capacity_ml
    /\ water_log = <<>>
    /\ detection_cooldown_s = DefaultDetectionCooldownS
    /\ last_detection_time = 0
    /\ latest_annotated_frame = "None"
    /\ motor_paused_until = 0
    /\ motor_paused_prev_speed = None
    /\ motor_pause_on_detection_s = DefaultMotorPauseOnDetectionS
    /\ lock = "none"
    /\ motor_pwm = motor_speed
    /\ pump_pwm = 0
    /\ pump_dir = "off"
    /\ config_file = SavedConfig
    /\ mpc = "activate"
    /\ detection_found = TRUE
    /\ hpc = "idle"
    /\ h_duration = 0
    /\ ret = Response("reset_water_level", "success")
    /\ nreq = 0
    /\ req = Absent
    /\ last_status = [k |-> "none"]

\* Auto and test sprays, each in its two writes, and the next refill.
NextRefill ==
    \/ Elapse
    \/ \E owner \in SprayOwners : consume_level(owner)
    \/ \E owner \in SprayOwners : consume_log(owner)
    \/ reset_water_level

SpecRefill == InitRefill /\ [][NextRefill]_vars

\* --------------------------------------------- the motor pause on its own
\* The running program after a setSpeed(0.2) of an earlier session of the
\* control surface: the motor runs at 20 %, nothing has been sprayed, and
\* the cooldown and the pause are 0.5 s.
InitPause ==
    /\ phase = "run"
    /\ now = StartTime
    /\ motor_speed = 20
    /\ pump_detection_duration = DefaultPumpDetectionDuration
    /\ pump_off_time = 0
    /\ water_per_spray_ml = DefaultWaterPerSprayMl
    /\ water_tank_capacity_ml = DefaultWaterTankCapacityMl
    /\ current_water_level_ml = DefaultCurrentWaterLevelMl
    /\ water_log = <<>>
    /\ detection_cooldown_s = 5
    /\ last_detection_time = 0
    /\ latest_annotated_frame = "frame"
    /\ motor_paused_until = 0
    /\ motor_paused_prev_speed = None
    /\ motor_pause_on_detection_s = 5
    /\ lock = "none"
    /\ motor_pwm = 20
    /\ pump_pwm = 0
    /\ pump_dir = "off"
    /\ config_file = SavedConfig
    /\ mpc = "read"
    /\ detection_found = FALSE
    /\ hpc = "idle"
    /\ h_duration = 0
    /\ ret = Response("set_speed", "success")
    /\ nreq = 0
    /\ req = [k |-> "num", v |-> 20]
    /\ last_status = [k |-> "none"]

NextPause ==
    \/ Tick
    \/ MainStep
    \/ HandlerStep

SpecPause == InitPause /\ [][NextPause]_vars

\* The same with the scheduler of FairSpec: the loop and a handler holding
\* the lock keep going, the clock advances, the camera is not down for ever.
FairSpecPause ==
    /\ SpecPause
    /\ WF_vars(MainStep)
    /\ SF_vars(FrameDelivered)
    /\ WF_vars(Tick)
    /\ WF_vars(test_pump_dir \/ test_pump_pwm \/ test_pump_off_time)

\* ------------------------------------------------ the lock, step by step
\* The auto path with every acquisition and release of STATE.lock a step of
\* its own.  The lock is "none", held by "handler", held by "main", or held
\* twice by the main thread ("main_twice"); only the main thread nests.

\* A lock that its owner cannot take a second time.
LockFreeFor_Plain(owner, who) == owner = "none"

\* Line 62: threading.RLock lets the thread that holds it acquire it again.
LockFreeFor(owner, who) == owner = "none" \/ owner = who

\* Entering and leaving a with STATE.lock block.
LockAcquire(owner, who) == IF owner = "none" THEN who ELSE "main_twice"
LockRelease(owner) == IF owner = "main_twice" THEN "main" ELSE "none"

\* Line 738: activate_pump_on_detect takes the lock.
activate_enter ==
    /\ phase = "run" /\ mpc = "activate"
    /\ LockFreeFor(lock, "main")
    /\ lock' = LockAcquire(lock, "main")
    /\ mpc' = "act_cooldown"
    /\ UNCHANGED <<phase, now, state_vars, device_vars, config_file,
                   detection_found, handler_vars>>

\* Lines 741-742: inside the cooldown the function returns, which leaves the
\* with block.
activate_cooldown ==
    /\ phase = "run" /\ mpc = "act_cooldown"
    /\ IF CooldownAllowed(now, last_detection_time, detection_cooldown_s)
       THEN mpc' = "act_spray" /\ lock' = lock
       ELSE mpc' = "stop_time" /\ lock' = LockRelease(lock)
    /\ UNCHANGED <<phase, now, state_vars, device_vars, config_file,
                   detection_found, handler_vars>>

\* Lines 745-757: the spray, up to the call of pause_motor_for; without
\* water or with the stop time not passed the with block is left.
activate_spray ==
    /\ phase = "run" /\ mpc = "act_spray"
    /\ IF /\ ActivationCheck(now, pump_off_time, current_water_level_ml)
          /\ CanConsume(current_water_level_ml, water_per_spray_ml)
       THEN /\ LogWaterUsage(pump_detection_duration, "Auto")
            /\ pump_dir' = "on"
            /\ pump_pwm' = SPEED_PUMP_DUTY_CYCLE
            /\ pump_off_time' = now + pump_detection_duration
            /\ last_detection_time' = now
            /\ mpc' = "pause_enter"
            /\ lock' = lock
       ELSE /\ UNCHANGED <<current_water_level_ml, water_log, config_file,
                           pump_dir, pump_pwm, pump_off_time,
                           last_detection_time>>
            /\ mpc' = "stop_time"
            /\ lock' = LockRelease(lock)
    /\ UNCHANGED <<phase, now, motor_speed, pump_detection_duration,
                   water_per_spray_ml, water_tank_capacity_ml,
                   detection_cooldown_s, latest_annotated_frame,
                   motor_paused_until, motor_paused_prev_speed,
                   motor_pause_on_detection_s, motor_pwm, detection_found,
                   handler_vars>>

\* Line 782: pause_motor_for takes the lock its caller already holds.
pause_enter ==
    /\ phase = "run" /\ mpc = "pause_enter"
    /\ LockFreeFor(lock, "main")
    /\ lock' = LockAcquire(lock, "main")
    /\ mpc' = "pause_body"
    /\ UNCHANGED <<phase, now, state_vars, device_vars, config_file,
                   detection_found, handler_vars>>

\* Lines 784-803: the pause is recorded and the inner with block left.
pause_body ==
    /\ phase = "run" /\ mpc = "pause_body"
    /\ PauseMotorFor(motor_pause_on_detection_s)
    /\ lock' = LockRelease(lock)
    /\ mpc' = "act_exit"
    /\ UNCHANGED <<phase, now, pump_detection_duration, pump_off_time,
                   water_per_spray_ml, water_tank_capacity_ml,
                   current_water_level_ml, water_log, detection_cooldown_s,
                   last_detection_time, latest_annotated_frame,
                   motor_pause_on_detection_s, pump_pwm, pump_dir,
                   config_file, detection_found, handler_vars>>

\* Line 763 returns into activate_pump_on_detect, whose with block ends.
activate_exit ==
    /\ phase = "run" /\ mpc = "act_exit"
    /\ lock' = LockRelease(lock)
    /\ mpc' = "stop_time"
    /\ UNCHANGED <<phase, now, state_vars, device_vars, config_file,
                   detection_found, handler_vars>>

\* The main loop with activate_pump_on_detect taken apart.
MainLockStep ==
    \/ main_read_frame
    \/ main_reopen_camera
    \/ main_predict
    \/ main_backoff
    \/ main_store_frame
    \/ activate_enter
    \/ activate_cooldown
    \/ activate_spray
    \/ pause_enter
    \/ pause_body
    \/ activate_exit
    \/ check_stop_time
    \/ check_stop_set
    \/ check_stop_pwm
    \/ check_stop_dir
    \/ check_stop_clear
    \/ check_and_resume_motor

\* The handler that holds the lock over several steps runs beside it.
NextLock ==
    \/ Tick
    \/ MainLockStep
    \/ test_pump_begin
    \/ test_pump_dir
    \/ test_pump_pwm
    \/ test_pump_off_time

SpecLock == InitPause /\ [][NextLock]_vars

\* Every thread that can run does: the main loop, and a handler that holds
\* the lock.
FairSpecLock ==
    /\ SpecLock
    /\ WF_vars(MainLockStep)
    /\ WF_vars(test_pump_dir \/ test_pump_pwm \/ test_pump_off_time)

\* ---------------------------------------------------------------- claims
\* The step that runs activate_pump_on_detect.
ActivateStep == mpc = "activate" /\ mpc' = "stop_time"

\* The step that starts serving a testPump request with a numeric duration.
TestPumpStep ==
    /\ nreq' = nreq + 1
    /\ ret'.op = "test_pump"
    /\ ret'.status # "invalid"

\* C1: in every reachable state the tank level lies between 0 and the tank
\* capacity, and once the loop and the server run no step lowers the level
\* by part of a spray: the level falls only by a whole water_per_spray_ml
\* that the tank held, or to a capacity that was set below it.
C1_LevelWithinTank ==
    /\ [](0 <= current_water_level_ml
          /\ current_water_level_ml <= water_tank_capacity_ml)
    /\ [][phase = "run" /\ current_water_level_ml' < current_water_level_ml =>
            \/ /\ water_per_spray_ml <= current_water_level_ml
               /\ current_water_level_ml' =
                     current_water_level_ml - water_per_spray_ml
            \/ /\ water_tank_capacity_ml' < current_water_level_ml
               /\ current_water_level_ml' = water_tank_capacity_ml']_vars

\* A spray was logged and the capacity was then set below the level.
C1_Witness ==
    /\ phase = "run"
    /\ water_log # <<>>
    /\ water_tank_capacity_ml < DefaultWaterTankCapacityMl
    /\ current_water_level_ml = water_tank_capacity_ml

\* The auto path changed nothing it owns.
AutoPathUnchanged ==
    UNCHANGED <<pump_pwm, pump_dir, pump_off_time, last_detection_time,
                current_water_level_ml, water_log, motor_speed, motor_pwm,
                motor_paused_prev_speed, motor_paused_until, config_file>>

\* C2: activate_pump_on_detect commands the pump on only when the cooldown
\* has elapsed, the previous stop time has passed and the tank holds a
\* whole spray; when one of the three fails the pump is not commanded on
\* and the stop time, the last detection time, the level, the log and the
\* pause fields keep their values.
C2_AutoSprayGuard ==
    [][ActivateStep =>
          IF /\ now >= last_detection_time + detection_cooldown_s
             /\ now > pump_off_time
             /\ current_water_level_ml >= water_per_spray_ml
          THEN TRUE
          ELSE AutoPathUnchanged]_vars

\* A detection was handled while the cooldown of an earlier spray, already
\* stopped, was still running.
C2_Witness ==
    /\ mpc = "stop_time"
    /\ detection_found
    /\ pump_off_time = 0
    /\ last_detection_time # 0
    /\ now < last_detection_time + detection_cooldown_s
    /\ Len(water_log) = 1
\* No request is being served and the main loop is not inside
\* check_and_stop_pump.
Quiescent ==
    /\ hpc = "idle"
    /\ lock = "none"
    /\ mpc \notin {"stop_set", "stop_pwm", "stop_dir", "stop_clear"}

\* C3: the stop-check is atomic with respect to the handlers, so a stop-check
\* and a testPump running together leave a state that one of their serial
\* orders leaves: the pump is never left commanded on with no stop time, and
\* a test spray that was consumed and logged is never left with its pump
\* off while its stop time is still ahead.
C3_StopCheckSerializable ==
    Quiescent =>
        /\ ~(pump_pwm # 0 /\ pump_off_time = 0)
        /\ ~(pump_pwm = 0 /\ pump_off_time # 0 /\ now <= pump_off_time)

\* C4: whenever no operation is in progress, pump_off_time is 0 exactly when
\* the pump output is commanded off.
C4_OffTimeZeroIffPumpOff ==
    Quiescent => (pump_off_time = 0 <=> pump_pwm = 0)

\* C5: every iteration of the main loop runs the stop-check and the
\* resume-check: the loop returns to its top only from
\* check_and_resume_motor, which follows check_and_stop_pump.
C5_EveryCycleRunsChecks ==
    [][(mpc # "read" /\ mpc' = "read") => mpc = "resume"]_vars

\* C6: with the main loop scheduled fairly and time advancing, a pump that is
\* commanded on is eventually commanded off with pump_off_time back at 0,
\* whatever the detector does.  A stop time at or beyond the last clock
\* reading of the model is not held against the program.
C6_PumpEventuallyOff ==
    (pump_pwm # 0) ~>
        \/ pump_pwm = 0 /\ pump_off_time = 0
        \/ pump_off_time >= StartTime + MaxTicks

\* C10: a spray is never cut short: the pump output goes from on to off only
\* when the stop time in force has been set and has passed.
C10_NeverStoppedEarly ==
    [][(pump_pwm # 0 /\ pump_pwm' = 0) =>
          (pump_off_time # 0 /\ now > pump_off_time)]_vars
\* The step calls log_water_usage: a testPump with a numeric duration, or a
\* detection that passed the cooldown and activation checks.
ConsumeAttempt ==
    \/ TestPumpStep
    \/ /\ ActivateStep
       /\ now >= last_detection_time + detection_cooldown_s
       /\ now > pump_off_time
       /\ current_water_level_ml > 0

\* The caller saw log_water_usage return True: it went on to switch the pump.
ConsumeSucceeded ==
    \/ TestPumpStep /\ ret'.status = "pending"
    \/ ActivateStep /\ pump_pwm' = SPEED_PUMP_DUTY_CYCLE
                    /\ last_detection_time' = now

\* One entry for this spray is the newest of the log and the entries before
\* it are the earlier ones in order, the oldest dropped from a full log.
OneEntryAppended ==
    LET n == Len(water_log)
        m == Len(water_log')
    IN  /\ m = IF n < WaterLogMax THEN n + 1 ELSE WaterLogMax
        /\ water_log'[m].amount = water_per_spray_ml
        /\ \A i \in 1..(m - 1) : water_log'[i] = water_log[i + n + 1 - m]

\* C7: log_water_usage with amount <= level succeeds, lowers the level by
\* exactly the amount and appends exactly one log entry; with amount > level
\* it fails and leaves the level and the log as they were.
C7_ConsumeExact ==
    [][ConsumeAttempt =>
          IF water_per_spray_ml <= current_water_level_ml
          THEN /\ ConsumeSucceeded
               /\ current_water_level_ml' =
                     current_water_level_ml - water_per_spray_ml
               /\ OneEntryAppended
          ELSE /\ ~ConsumeSucceeded
               /\ UNCHANGED <<current_water_level_ml, water_log>>]_vars

\* A test spray took the last of the tank (amount = level) and its entry
\* pushed the oldest one out of a full log.
C7_Witness ==
    /\ ret = Response("test_pump", "success")
    /\ current_water_level_ml = 0
    /\ Len(water_log) = WaterLogMax
    /\ water_log[WaterLogMax].type = "Test"
    /\ water_log[1] = EarlierLog(WaterLogMax)[2]

\* C8: with the level below water_per_spray_ml an auto trigger and a
\* testPump are both refused, the testPump with tankEmpty: no log entry,
\* the pump not commanded on, and the level, the stop time, the last
\* detection time and the pause fields unchanged.
C8_ExhaustedRefused ==
    [][(current_water_level_ml < water_per_spray_ml
          /\ (ActivateStep \/ TestPumpStep)) =>
          /\ AutoPathUnchanged
          /\ TestPumpStep => ret'.status = "tankEmpty"]_vars

\* With 5 ml in the tank and 10 ml per spray a testPump was answered
\* tankEmpty and a detection was handled, and nothing was sprayed.
C8_Witness ==
    /\ ret = Response("test_pump", "tankEmpty")
    /\ mpc = "stop_time"
    /\ detection_found
    /\ current_water_level_ml = 50
    /\ water_per_spray_ml = DefaultWaterPerSprayMl
    /\ water_log = <<>>
    /\ pump_pwm = 0
    /\ pump_off_time = 0

\* C9: with the pump idle and water available, an auto trigger strictly
\* before last_detection_time + detection_cooldown_s is refused and one at
\* that time or later sprays.
C9_CooldownBoundary ==
    [][(ActivateStep /\ now > pump_off_time
          /\ current_water_level_ml >= water_per_spray_ml) =>
          IF now >= last_detection_time + detection_cooldown_s
          THEN /\ pump_pwm' = SPEED_PUMP_DUTY_CYCLE
               /\ pump_off_time' = now + pump_detection_duration
               /\ last_detection_time' = now
          ELSE AutoPathUnchanged]_vars

\* The second auto spray fired exactly one cooldown after the first, which
\* fired as the loop started.
C9_Witness ==
    /\ nreq = 0
    /\ Len(water_log) = 2
    /\ last_detection_time = StartTime + detection_cooldown_s

\* A handle_pump_test step that writes the stop time and answers.
TestPumpDone == hpc = "pump_off_time" /\ hpc' = "idle"

\* C11: a testPump with a numeric duration is served whenever the tank holds
\* one spray, whatever the cooldown and whether or not a spray is running:
\* it is refused only with tankEmpty when the tank holds less, it lowers the
\* level by water_per_spray_ml and appends a Test entry, and it replaces the
\* stop time by now + duration and answers success.
C11_TestGatedByWaterOnly ==
    [][/\ TestPumpStep =>
            IF current_water_level_ml >= water_per_spray_ml
            THEN /\ ret'.status = "pending"
                 /\ current_water_level_ml' =
                       current_water_level_ml - water_per_spray_ml
                 /\ OneEntryAppended
                 /\ water_log'[Len(water_log')].type = "Test"
            ELSE ret'.status = "tankEmpty"
       /\ TestPumpDone =>
            /\ pump_off_time' = now + h_duration
            /\ ret' = Response("test_pump", "success")]_vars

\* A test spray of 0.1 s was served while an auto spray of 0.2 s was running
\* and its cooldown had not elapsed: the level fell twice, the log holds
\* the Auto and the Test entry, and the stop time is the test spray's.
C11_Witness ==
    /\ ret = Response("test_pump", "success")
    /\ Len(water_log) = 2
    /\ water_log[1].type = "Auto"
    /\ water_log[2].type = "Test"
    /\ current_water_level_ml =
          DefaultCurrentWaterLevelMl - 2 * DefaultWaterPerSprayMl
    /\ pump_off_time = last_detection_time + 1
    /\ pump_off_time < last_detection_time + pump_detection_duration
    /\ now < last_detection_time + detection_cooldown_s

\* Any step of handle_pump_test.
TestPumpAnyStep == TestPumpStep \/ hpc' # hpc

\* C12: only the auto path touches the cooldown and the motor pause.  An
\* auto spray sets pump_off_time = now + pump_detection_duration and
\* last_detection_time = now and pauses the motor (speed and duty 0, the
\* pause fields set); no step of a test spray changes last_detection_time,
\* motor_speed or the pause fields, and last_detection_time is written by
\* no step but the auto spray.
C12_OnlyAutoTouchesCooldownAndPause ==
    [][/\ (ActivateStep
             /\ now >= last_detection_time + detection_cooldown_s
             /\ now > pump_off_time
             /\ current_water_level_ml >= water_per_spray_ml) =>
            /\ pump_off_time' = now + pump_detection_duration
            /\ last_detection_time' = now
            /\ motor_speed' = 0
            /\ motor_pwm' = 0
            /\ motor_paused_prev_speed' # None
            /\ motor_paused_until' >= now + motor_pause_on_detection_s
       /\ TestPumpAnyStep =>
            UNCHANGED <<last_detection_time, motor_speed, motor_pwm,
                        motor_paused_prev_speed, motor_paused_until>>
       /\ last_detection_time' # last_detection_time => ActivateStep]_vars

\* An auto spray paused the motor and a later 0.3 s test spray was served
\* during the pause: the detection time and the pause are still the auto
\* spray's, and only the stop time is the test spray's.
C12_Witness ==
    /\ ret = Response("test_pump", "success")
    /\ Len(water_log) = 2
    /\ water_log[1].type = "Auto"
    /\ water_log[2].type = "Test"
    /\ motor_speed = 0
    /\ motor_paused_prev_speed # None
    /\ motor_paused_until = last_detection_time + motor_pause_on_detection_s
    /\ pump_off_time > last_detection_time + pump_detection_duration

\* C13: in every reachable state motor_paused_prev_speed is set exactly when
\* motor_paused_until is not 0, and a step that sets or clears one of them
\* sets or clears the other: pause_motor_for, check_and_resume_motor and
\* set_motor_speed each write both inside one critical section.
C13_PauseFieldsTogether ==
    /\ [](motor_paused_prev_speed # None <=> motor_paused_until # 0)
    /\ [][(motor_paused_prev_speed = None) # (motor_paused_prev_speed' = None)
            <=> (motor_paused_until = 0) # (motor_paused_until' = 0)]_vars

\* A pause is in effect: the auto spray saved the speed a setSpeed request
\* had chosen and set the deadline.
C13_Witness ==
    /\ motor_paused_prev_speed = 20
    /\ motor_paused_until = last_detection_time + motor_pause_on_detection_s
    /\ motor_speed = 0
    /\ mpc = "stop_time"

\* C14: pause_motor_for called while a pause is in effect never lowers
\* motor_paused_until and never replaces the saved speed: the deadline
\* becomes max(motor_paused_until, now + duration), so a pause of length d
\* begun at t and triggered again at t + k <= t + d ends at t + k + d.
C14_PauseExtends ==
    [][(ActivateStep /\ motor_paused_prev_speed # None
          /\ now >= last_detection_time + detection_cooldown_s
          /\ now > pump_off_time
          /\ current_water_level_ml >= water_per_spray_ml) =>
          /\ motor_paused_until' >= motor_paused_until
          /\ motor_paused_until' =
                IF motor_paused_until >= now + motor_pause_on_detection_s
                THEN motor_paused_until
                ELSE now + motor_pause_on_detection_s
          /\ motor_paused_prev_speed' = motor_paused_prev_speed
          /\ motor_speed' = 0
          /\ motor_pwm' = 0]_vars

\* The motor ran at 20 % when the first spray paused it for 0.5 s; the second
\* spray came 0.5 s later, before the pause had ended: the deadline moved to
\* 1.0 s after the first spray and the saved speed is still 20 %.
C14_Witness ==
    /\ Len(water_log) = 2
    /\ last_detection_time = StartTime + 5
    /\ motor_paused_until = StartTime + 5 + 5
    /\ motor_paused_prev_speed = 20
    /\ motor_speed = 0

\* The step that runs check_and_resume_motor.
ResumeStep == mpc = "resume" /\ mpc' = "read"

\* C15: check_and_resume_motor run at now <= motor_paused_until, or with no
\* pause in effect, changes nothing; run at now > motor_paused_until it sets
\* motor_speed and the motor duty to the saved speed and clears both pause
\* fields.  The saved speed is the speed the motor had when the pause began:
\* it is written only by the pause that finds it unset.
C15_ResumeExact ==
    [][/\ ResumeStep =>
            IF motor_paused_prev_speed # None /\ now > motor_paused_until
            THEN /\ motor_speed' = motor_paused_prev_speed
                 /\ motor_pwm' = motor_paused_prev_speed
                 /\ motor_paused_prev_speed' = None
                 /\ motor_paused_until' = 0
            ELSE UNCHANGED <<motor_speed, motor_pwm, motor_paused_prev_speed,
                             motor_paused_until>>
       /\ motor_paused_prev_speed' # motor_paused_prev_speed =>
            \/ motor_paused_prev_speed' = None
            \/ /\ ActivateStep
               /\ motor_paused_prev_speed = None
               /\ motor_paused_prev_speed' = motor_speed]_vars

\* With no request made, a spray paused the motor that ran at 20 %, and
\* after the deadline the resume-check put speed and duty back to 20 % and
\* cleared the pause.
C15_Witness ==
    /\ nreq = 0
    /\ mpc = "read"
    /\ Len(water_log) = 1
    /\ now > last_detection_time + motor_pause_on_detection_s
    /\ motor_speed = 20
    /\ motor_pwm = 20
    /\ motor_paused_prev_speed = None
    /\ motor_paused_until = 0

\* A setSpeed, stopMotor or startMotor request that was carried out.
ManualSpeedStep ==
    /\ nreq' = nreq + 1
    /\ ret'.op \in {"set_speed", "stop_motor", "start_motor"}
    /\ ret'.status = "success"

\* C16: a setSpeed, stopMotor or startMotor carried out while a pause is in
\* effect (or not) clears both pause fields and puts the chosen speed on the
\* motor; check_and_resume_motor changes motor_speed only from a pause that
\* is in effect, and a pause begun later saves the speed of that moment, so
\* the speed saved before the manual change is never brought back.
C16_ManualIntentWins ==
    [][/\ ManualSpeedStep =>
            /\ motor_paused_prev_speed' = None
            /\ motor_paused_until' = 0
            /\ motor_pwm' = motor_speed'
       /\ (ResumeStep /\ motor_paused_prev_speed = None) =>
            UNCHANGED <<motor_speed, motor_pwm>>
       /\ (~ManualSpeedStep /\ motor_paused_prev_speed = None
             /\ motor_paused_prev_speed' # None) =>
            motor_paused_prev_speed' = motor_speed]_vars

\* The motor ran at 20 % when a spray paused it; before the pause's deadline
\* a setSpeed put it to 100 % and cleared the pause, so no resume is pending.
C16_Witness ==
    /\ ret = Response("set_speed", "success")
    /\ nreq = 1
    /\ Len(water_log) = 1
    /\ now <= last_detection_time + motor_pause_on_detection_s
    /\ motor_speed = 100
    /\ motor_pwm = 100
    /\ motor_paused_prev_speed = None
    /\ motor_paused_until = 0

\* C17: on every exit path the motor and the pump duty are commanded to 0
\* before the process exits, and both are 0 when it exits.
C17_OutputsZeroAtExit ==
    phase = "exited" => (motor_pwm = 0 /\ pump_pwm = 0)

\* C18: when config.json is missing or cannot be parsed at process start,
\* load_config ends with the defaults in force and written to config.json,
\* and startup goes on: the process never dies in load_config, and once
\* load_config is over config.json holds a record.
C18_MissingConfigLoadsDefaults ==
    /\ phase # "crashed"
    /\ phase # "load" => config_file.kind = "json"

\* C19: when the GPIO set-up is over, before the server thread and the loop
\* start, motor_speed and the motor duty are 0 and config.json holds
\* motor_speed 0, whatever speed was loaded.
C19_MotorZeroAtStart ==
    phase = "init" =>
        /\ motor_speed = 0
        /\ motor_pwm = 0
        /\ config_file.kind = "json"
        /\ config_file.motor_speed = 0

\* config.json held motor_speed 0.2 and a nearly empty tank; after the GPIO
\* set-up the speed is 0 in the state and in the file, the rest as loaded.
C19_Witness ==
    /\ phase = "init"
    /\ motor_speed = 0
    /\ motor_pwm = 0
    /\ config_file.motor_speed = 0
    /\ config_file.current_water_level_ml = 50
    /\ current_water_level_ml = 50

\* C20: a request answered invalid leaves every field of the state and
\* config.json as they were.
C20_InvalidLeavesStateUnchanged ==
    [][(nreq' = nreq + 1 /\ ret'.status = "invalid") =>
          UNCHANGED <<state_vars, config_file>>]_vars

\* A request that carries no value field arrived at an endpoint that takes
\* one.
MissingFieldStep ==
    /\ nreq' = nreq + 1
    /\ req' = Absent
    /\ ret'.op \in {"test_pump", "set_detection_duration", "set_cooldown",
                    "set_speed"}

\* C21: a testPump, setDetectionDuration, setCooldown or setSpeed request
\* without its value field is answered invalid, starts no spray and changes
\* neither the state nor config.json.
C21_MissingFieldRejected ==
    [][MissingFieldStep =>
          /\ ret'.status = "invalid"
          /\ UNCHANGED <<state_vars, device_vars, config_file, lock, hpc>>]_vars

\* The bound of [lo, hi] nearest to x, or x itself when it lies inside.
Nearest(lo, hi, x) == IF x < lo THEN lo ELSE IF x > hi THEN hi ELSE x

\* The last request carried a number for the endpoint op.
NumericRequest(op) == ret.op = op /\ req.k = "num"

\* C22: in every reachable state motor_speed is in [0, 1],
\* pump_detection_duration in [0.1, 5.0], detection_cooldown_s in
\* [0.5, 30.0], water_per_spray_ml >= 0.1 and water_tank_capacity_ml >= 100;
\* and a write with a number, in or out of range, succeeds and leaves the
\* field at the nearest value of its range (the motor speed being 0 instead
\* while a later pause holds it).
C22_FieldsWithinClampRanges ==
    /\ 0 <= motor_speed /\ motor_speed <= 100
    /\ 1 <= pump_detection_duration /\ pump_detection_duration <= 50
    /\ 5 <= detection_cooldown_s /\ detection_cooldown_s <= 300
    /\ water_per_spray_ml >= 1
    /\ water_tank_capacity_ml >= 1000
    /\ NumericRequest("set_speed") =>
          /\ ret.status = "success"
          /\ motor_speed = IF motor_paused_prev_speed # None THEN 0
                           ELSE Nearest(0, 100, req.v)
    /\ NumericRequest("set_detection_duration") =>
          /\ ret.status = "success"
          /\ pump_detection_duration = Nearest(1, 50, req.v)
    /\ NumericRequest("set_cooldown") =>
          /\ ret.status = "success"
          /\ detection_cooldown_s = Nearest(5, 300, req.v)
    /\ (ret.op = "set_water_config" /\ req.spray # NotANumber
          /\ req.capacity # NotANumber) =>
          /\ ret.status = "success"
          /\ IsNum(req.spray) =>
                water_per_spray_ml = IF req.spray.v < 1 THEN 1
                                     ELSE req.spray.v
          /\ IsNum(req.capacity) =>
                water_tank_capacity_ml = IF req.capacity.v < 1000 THEN 1000
                                         ELSE req.capacity.v

\* A setCooldown of 40 s was carried out: it succeeded with the cooldown at
\* the upper bound, 30 s.
C22_Witness ==
    /\ ret = Response("set_cooldown", "success")
    /\ req = Num(400)
    /\ detection_cooldown_s = 300
    /\ config_file.detection_cooldown_s = 300

\* C23: a setWaterConfig with capacity 50 ml and no spray volume, issued
\* while the tank holds 200 ml, leaves the level at 50 ml.
C23_CapacityShrinkTo50 ==
    [][(nreq' = nreq + 1 /\ ret'.op = "set_water_config"
          /\ req'.spray = Absent /\ req'.capacity = Num(500)
          /\ current_water_level_ml = 2000) =>
          current_water_level_ml' = 500]_vars

\* C24: the log never holds more than 50 entries; after k sprays logged in a
\* row it holds the newest min(k, 50) of them in the order they were
\* appended, so after 55 sprays the first 5 are gone and entries 6 to 55
\* remain.  Spray j is told by its timestamp, j - 1 seconds after the first.
C24_LogKeepsNewestFifty ==
    LET k == ConsumesInARow - current_water_level_ml \div water_per_spray_ml
        n == Len(water_log)
    IN  /\ n <= 50
        /\ n = IF k < 50 THEN k ELSE 50
        /\ \A i \in 1..n :
              water_log[i].time = StartTime \div TicksPerSecond + (k - n) + i - 1

\* 55 sprays were logged: the log holds 50 entries, the sixth spray first
\* and the fifty-fifth last.
C24_Witness ==
    /\ current_water_level_ml = 0
    /\ Len(water_log) = 50
    /\ water_log[1].time = StartTime \div TicksPerSecond + 5
    /\ water_log[50].time = StartTime \div TicksPerSecond + 54

\* The steps of a cycle in which the detector raises: the frame is read, the
\* detector raises into the handler, the handler backs off.
FailedCycleStep ==
    \/ mpc = "read" /\ mpc' = "predict"
    \/ mpc = "predict" /\ mpc' = "backoff"
    \/ mpc = "backoff" /\ mpc' # "backoff"

C26_StatusNeverTorn ==
    last_status.k = "status" =>
        /\ last_status.current_water_level_ml
              + Len(last_status.water_log) * last_status.water_per_spray_ml
           = StatusSprays * DefaultWaterPerSprayMl
        /\ \A i \in 1..Len(last_status.water_log) :
              last_status.water_log[i].amount = last_status.water_per_spray_ml

\* A status answer showing one whole auto spray, while a test spray is
\* between its two writes: in memory the level is lowered twice and the log
\* holds one entry.
C26_Witness ==
    /\ last_status.k = "status"
    /\ Len(last_status.water_log) = 1
    /\ last_status.water_log[1].type = "Auto"
    /\ last_status.current_water_level_ml =
          (StatusSprays - 1) * DefaultWaterPerSprayMl
    /\ lock = "handler"
    /\ current_water_level_ml = (StatusSprays - 2) * DefaultWaterPerSprayMl
    /\ Len(water_log) = 1

\* A step that completes an operation changing a configuration or resource
\* field: a request to one of the five setters is answered, or an auto or
\* a test spray has taken its water.
MutatingOperationStep ==
    \/ /\ nreq' = nreq + 1
       /\ ret'.op \in {"set_speed", "set_detection_duration", "set_cooldown",
                       "set_water_config", "reset_water_level"}
    \/ /\ nreq' = nreq + 1
       /\ ret' = Response("test_pump", "success")
    \/ /\ ActivateStep
       /\ water_log' # water_log

\* C27: after every completed operation that changes a configuration or
\* resource field (setSpeed, setDetectionDuration, setCooldown,
\* setWaterConfig, resetWaterLevel, a successful auto or test spray) the
\* saved record holds, for each field the operation changed, the value the
\* state holds in memory.
C27_PersistedMatchesMemory ==
    [][MutatingOperationStep =>
          /\ motor_speed' # motor_speed =>
                config_file'.motor_speed = motor_speed'
          /\ pump_detection_duration' # pump_detection_duration =>
                config_file'.pump_detection_duration = pump_detection_duration'
          /\ water_per_spray_ml' # water_per_spray_ml =>
                config_file'.water_per_spray_ml = water_per_spray_ml'
          /\ water_tank_capacity_ml' # water_tank_capacity_ml =>
                config_file'.water_tank_capacity_ml = water_tank_capacity_ml'
          /\ current_water_level_ml' # current_water_level_ml =>
                config_file'.current_water_level_ml = current_water_level_ml'
          /\ detection_cooldown_s' # detection_cooldown_s =>
                config_file'.detection_cooldown_s = detection_cooldown_s'
      ]_vars

\* C28: the scenario on the default configuration (capacity 200 ml, spray
\* 10 ml, level 200 ml, cooldown 1.0 s, detection duration 0.2 s, pause
\* 1.0 s), with t counted from the first detection.  The detection at t = 0
\* fires: level 190 ml, one Auto entry, stop time 0.2, motor paused until
\* 1.0.  A stop-check that starts at t = 0.3 goes on to command the pump
\* off.  A detection at t = 0.5 is refused and changes nothing.  A detection
\* at t = 1.5 fires again and leaves the level at 180 ml.
C28_Scenario ==
    [][/\ (ActivateStep /\ water_log = <<>>) =>
             /\ current_water_level_ml' = 1900
             /\ Len(water_log') = 1
             /\ water_log'[1].type = "Auto"
             /\ pump_dir' = "on"
             /\ pump_pwm' = SPEED_PUMP_DUTY_CYCLE
             /\ pump_off_time' = now + 2
             /\ last_detection_time' = now
             /\ motor_speed' = 0
             /\ motor_pwm' = 0
             /\ motor_paused_prev_speed' = motor_speed
             /\ motor_paused_until' = now + 10
       /\ (/\ mpc = "stop_time" /\ mpc' # mpc
           /\ Len(water_log) = 1
           /\ now = last_detection_time + 3
           /\ pump_off_time # 0) => mpc' = "stop_set"
       /\ (mpc = "stop_set" /\ mpc' # mpc /\ pump_off_time # 0) =>
             mpc' = "stop_pwm"
       /\ (mpc = "stop_pwm" /\ mpc' # mpc) => pump_pwm' = 0
       /\ (mpc = "stop_dir" /\ mpc' # mpc) => pump_dir' = "off"
       /\ (/\ ActivateStep
           /\ Len(water_log) = 1
           /\ now = last_detection_time + 5) => AutoPathUnchanged
       /\ (/\ ActivateStep
           /\ Len(water_log) = 1
           /\ now = last_detection_time + 15) =>
             /\ current_water_level_ml' = 1800
             /\ Len(water_log') = 2
             /\ water_log'[2].type = "Auto"
             /\ pump_pwm' = SPEED_PUMP_DUTY_CYCLE
             /\ pump_off_time' = now + 2
             /\ last_detection_time' = now
      ]_vars

\* The end of the scenario: the second spray has fired 1.5 s after the
\* first, which the stop-check had ended; the level is 180 ml.
C28_Witness ==
    /\ Len(water_log) = 2
    /\ current_water_level_ml = 1800
    /\ last_detection_time = StartTime + 15
    /\ water_log[1].time = StartTime \div TicksPerSecond
    /\ pump_pwm = SPEED_PUMP_DUTY_CYCLE
    /\ pump_off_time = StartTime + 17
    /\ motor_paused_until = StartTime + 25
    /\ config_file.current_water_level_ml = 1800

\* The step that answers a resetWaterLevel request.
ResetStep ==
    /\ nreq' = nreq + 1
    /\ ret'.op = "reset_water_level"

\* C29: resetWaterLevel sets the level to the tank capacity and empties the
\* log, always succeeds, and leaves the stop time, the last detection time,
\* the motor speed, the pause fields and every other configuration field
\* unchanged.
C29_ResetFrame ==
    [][ResetStep =>
          /\ current_water_level_ml' = water_tank_capacity_ml
          /\ water_log' = <<>>
          /\ ret'.status = "success"
          /\ UNCHANGED <<pump_off_time, last_detection_time, motor_speed,
                         motor_paused_until, motor_paused_prev_speed,
                         pump_detection_duration, water_per_spray_ml,
                         water_tank_capacity_ml, detection_cooldown_s,
                         motor_pause_on_detection_s>>
      ]_vars

\* A refill answered after an auto spray, with the stop time set and the
\* cooldown running: the log is empty again and the level, in memory and on
\* file, is the capacity.
C29_Witness ==
    /\ ret = Response("reset_water_level", "success")
    /\ water_log = <<>>
    /\ current_water_level_ml = water_tank_capacity_ml
    /\ config_file.current_water_level_ml = water_tank_capacity_ml
    /\ last_detection_time # 0
    /\ pump_off_time = last_detection_time + pump_detection_duration
    /\ motor_paused_until = last_detection_time + motor_pause_on_detection_s

\* What set_motor_speed(v) with 0 <= v <= 1 leaves behind, written out in
\* terms of the state before the call: the speed and the motor duty are v,
\* no pause is in effect, the file holds the state with speed v, and nothing
\* else has changed.
SpeedOutcome(v) ==
    /\ motor_speed' = v
    /\ motor_pwm' = v
    /\ motor_paused_prev_speed' = None
    /\ motor_paused_until' = 0
    /\ config_file' = [kind |-> "json", motor_speed |-> v,
                       pump_detection_duration |-> pump_detection_duration,
                       water_per_spray_ml |-> water_per_spray_ml,
                       water_tank_capacity_ml |-> water_tank_capacity_ml,
                       current_water_level_ml |-> current_water_level_ml,
                       detection_cooldown_s |-> detection_cooldown_s,
                       motor_pause_on_detection_s |->
                           motor_pause_on_detection_s]
    /\ ret'.status = "success"
    /\ UNCHANGED <<pump_detection_duration, pump_off_time, water_per_spray_ml,
                   water_tank_capacity_ml, current_water_level_ml, water_log,
                   detection_cooldown_s, last_detection_time,
                   latest_annotated_frame, motor_pause_on_detection_s,
                   pump_pwm, pump_dir>>

\* C30: startMotor and stopMotor do what setSpeed(0.2) and setSpeed(0.0) do.
\* From any state the four requests are determined by the state before:
\* startMotor and setSpeed(0.2) both end in the one state SpeedOutcome(20)
\* allows, stopMotor and setSpeed(0.0) in the one SpeedOutcome(0) allows,
\* with the same state fields, motor duty and saved record, an active pause
\* cancelled.
C30_StartStopAreSetSpeed ==
    [][/\ (nreq' = nreq + 1 /\ ret'.op = "start_motor") => SpeedOutcome(20)
       /\ (nreq' = nreq + 1 /\ ret'.op = "set_speed" /\ req' = Num(20)) =>
             SpeedOutcome(20)
       /\ (nreq' = nreq + 1 /\ ret'.op = "stop_motor") => SpeedOutcome(0)
       /\ (nreq' = nreq + 1 /\ ret'.op = "set_speed" /\ req' = Num(0)) =>
             SpeedOutcome(0)
      ]_vars

\* startMotor answered while the pause of an auto spray was in effect: the
\* motor runs at 20 %, the pause is cancelled, the file holds 20 %.
C30_Witness ==
    /\ ret = Response("start_motor", "success")
    /\ motor_speed = 20
    /\ motor_pwm = 20
    /\ motor_paused_prev_speed = None
    /\ motor_paused_until = 0
    /\ config_file.motor_speed = 20
    /\ last_detection_time # 0
    /\ now < last_detection_time + motor_pause_on_detection_s

\* C34: in every reachable state a saved pre-pause speed implies
\* motor_speed = 0.  Hence whenever check_and_resume_motor finds an elapsed
\* pause (the resume is due), the speed it tests at line 815 is 0 and it
\* restores the saved speed: the branch that discards the saved value
\* without restoring it is never taken.
C34_SavedSpeedImpliesStopped ==
    /\ motor_paused_prev_speed # None => motor_speed = 0
    /\ (/\ phase = "run"
        /\ ResumeDue(motor_paused_prev_speed, now, motor_paused_until))
          => motor_speed = 0

\* The resume check is about to run on an elapsed pause that saved 20 %:
\* the motor stands still.
C34_Witness ==
    /\ mpc = "resume"
    /\ lock = "none"
    /\ motor_paused_prev_speed = 20
    /\ now > motor_paused_until
    /\ motor_speed = 0
    /\ motor_pwm = 0

\* C35: while the program runs (startup is over and no shutdown is begun in
\* this specification), in every state where the lock is free, the duty last
\* commanded to the motor equals motor_speed, however setSpeed, the pause
\* of a spray and the resume interleave.
C35_DutyEqualsSpeed ==
    (phase = "run" /\ lock = "none") => motor_pwm = motor_speed

\* The motor ran at 20 %, a spray paused it and the resume ended the pause,
\* with no request made in between: duty and speed are both 20 % again and
\* the pump of that spray has been stopped.
C35_Witness ==
    /\ phase = "run"
    /\ lock = "none"
    /\ nreq = 0
    /\ Len(water_log) = 1
    /\ last_detection_time # 0
    /\ pump_off_time = 0
    /\ pump_pwm = 0
    /\ motor_paused_prev_speed = None
    /\ motor_speed = 20
    /\ motor_pwm = 20

\* An auto spray that fired.
AutoSprayStep ==
    /\ ActivateStep
    /\ water_log' # water_log

\* The spray logged last was to stop later than now: it began no earlier
\* than the whole second of its entry and runs for the duration logged.
LastSprayStopInFuture ==
    /\ water_log # <<>>
    /\ now < water_log[Len(water_log)].time * TicksPerSecond
               + water_log[Len(water_log)].duration

\* C33: two consecutive successful auto sprays are at least
\* detection_cooldown_s apart (the value in force at the second trigger); an
\* auto spray never starts while the stop time of a previous spray is still
\* in the future, neither the one held in pump_off_time nor the one the
\* previous spray was given; last_detection_time changes only on a
\* successful auto spray and never decreases.
C33_AutoSpraysSpaced ==
    [][/\ (AutoSprayStep /\ last_detection_time # 0) =>
             now >= last_detection_time + detection_cooldown_s
       /\ AutoSprayStep => ~(now <= pump_off_time)
       /\ AutoSprayStep => ~LastSprayStopInFuture
       /\ last_detection_time' # last_detection_time =>
             /\ AutoSprayStep
             /\ last_detection_time' = now
             /\ last_detection_time' >= last_detection_time
      ]_vars

\* The amounts of the entries of a log, added up.
RECURSIVE SumAmounts(_)
SumAmounts(log) ==
    IF log = <<>> THEN 0
    ELSE log[1].amount + SumAmounts(SubSeq(log, 2, Len(log)))

\* C36: water accounting loses no update.  After a refill, with the spray
\* volume and the capacity left alone and fewer than 50 sprays logged, the
\* level plus the logged amounts is the level of the refill (the capacity)
\* whenever no spray is inside its critical section, however auto and test
\* sprays interleave.
C36_NoLostUpdate ==
    (lock = "none" /\ Len(water_log) < 50) =>
        current_water_level_ml + SumAmounts(water_log) = water_tank_capacity_ml

\* Four sprays of 25 ml since the refill, of both kinds: the tank of 100 ml
\* is empty and the four logged amounts add up to it.
C36_Witness ==
    /\ lock = "none"
    /\ Len(water_log) = 4
    /\ \E i \in 1..4 : water_log[i].type = "Auto"
    /\ \E i \in 1..4 : water_log[i].type = "Test"
    /\ water_per_spray_ml = 250
    /\ current_water_level_ml = 0
    /\ SumAmounts(water_log) = 1000

\* The pump runs on the auto spray triggered last: the stop time is the one
\* that spray set, it has not passed, and the pump is on.
AutoSprayRunning ==
    /\ phase = "run"
    /\ last_detection_time # 0
    /\ pump_off_time = last_detection_time + pump_detection_duration
    /\ now <= pump_off_time
    /\ pump_pwm = SPEED_PUMP_DUTY_CYCLE

\* A manual speed request has been served since the program was found
\* running.
ManualSpeedServed ==
    /\ nreq > 0
    /\ ret.op \in {"set_speed", "start_motor", "stop_motor"}

\* C32: the motor is paused while spraying.  From the trigger of an auto
\* spray until its stop time has passed and the pump is commanded off,
\* motor_speed and the motor duty stay 0 unless a manual speed request
\* intervenes, for every permitted pump_detection_duration and the
\* configured pause.
C32_MotorStoppedWhileSpraying ==
    (AutoSprayRunning /\ ~ManualSpeedServed) =>
        motor_speed = 0 /\ motor_pwm = 0

\* Speeds a pause can have saved.
PausedSpeeds == {0, 20, 100}

\* A manual speed request or a refill has been served since the program
\* was found running.
SpeedOrRefillServed ==
    /\ nreq > 0
    /\ ret.op \in {"set_speed", "start_motor", "stop_motor",
                   "reset_water_level"}

\* C31: with the main loop scheduled fairly, no manual speed request and no
\* refill, every pause started by an auto spray is eventually followed by a
\* state in which motor_speed is the speed from before the pause and both
\* pause fields are cleared, whatever the detector reports.  A pause whose
\* deadline lies at or beyond the last clock reading of the model is not
\* held against the program.
C31_PauseEventuallyResumed ==
    \A v \in PausedSpeeds :
        (motor_paused_prev_speed = v) ~>
            \/ /\ motor_speed = v
               /\ motor_paused_prev_speed = None
               /\ motor_paused_until = 0
            \/ SpeedOrRefillServed
            \/ motor_paused_until >= StartTime + MaxTicks

\* C37: the system is deadlock-free.  The lock is reentrant, so the nested
\* acquisition of the auto path (activate_pump_on_detect holds the lock and
\* calls pause_motor_for, which takes it again) always proceeds; and every
\* acquisition, by the main loop or by a handler, is followed by its
\* release on every path, early and error returns included: a held lock
\* always becomes free again.
C37_DeadlockFree ==
    /\ [](mpc = "pause_enter" => lock = "main" /\ ENABLED pause_enter)
    /\ (lock # "none") ~> (lock = "none")

\* The nested acquisition has happened: pause_motor_for runs with the lock
\* held twice by the main thread, the pump of the spray already on.
C37_Witness ==
    /\ lock = "main_twice"
    /\ mpc = "pause_body"
    /\ pump_pwm = SPEED_PUMP_DUTY_CYCLE
    /\ motor_speed = 20

====
